---------------------------- MODULE Spec2Model ----------------------------
(***************************************************************************)
(* A model of core/src/ast.rs of redscript: the value types of the syntax  *)
(* tree (Pos/Span, Ident, BinOp, TypeName, Target, Expr) and the pure      *)
(* functions defined on them.  Every component has a specification whose   *)
(* initial states draw the inputs from bounded sets and whose actions      *)
(* apply the functions of that component; `call` records the last call.    *)
(*                                                                         *)
(* Strings are sequences of one-character strings, so that split, join     *)
(* and format! are computed character by character.                        *)
(***************************************************************************)
EXTENDS Integers, Sequences, FiniteSets, TLC

VARIABLES spanA, spanB, spanC,   \* three Span values
          identA, identB,        \* two Ident values
          opSelf, opParent,      \* two BinOp values
          ty,                    \* a TypeName
          str,                   \* a &str handed to from_repr
          expr,                  \* an Expr
          call                   \* the last call made and what it returned

vars == <<spanA, spanB, spanC, identA, identB, opSelf, opParent, ty, str, expr, call>>

\* ------------------------------------------------------------------ bounds

\* Positions range over 0..MaxPos.
MaxPos == 2
\* Identifier texts compared by the Ident operations have at most this length.
MaxNameLen == 2
\* A TypeName has at most this many nodes (itself and its nested arguments).
MaxTypeNodes == 3
\* Strings handed directly to from_repr have at most this length.
MaxStrLen == 4
\* An Expr::Seq tree has at most this many nodes.
MaxExprNodes == 4

BoundedSeqs(S, n) == UNION {[1..k -> S] : k \in 0..n}

NoCall == [op |-> "none"]

\* ------------------------------------------------------------------ strings

\* The byte of a character (the part of ASCII the model uses).
Byte(c) ==
    CASE c = ":" -> 58
      [] c = "<" -> 60
      [] c = ">" -> 62
      [] c = "," -> 44
      [] c = "_" -> 95
      [] c = "I" -> 73
      [] c = "a" -> 97
      [] c = "b" -> 98
      [] c = "c" -> 99
      [] c = "e" -> 101
      [] c = "f" -> 102
      [] c = "i" -> 105
      [] c = "p" -> 112
      [] c = "r" -> 114
      [] c = "s" -> 115
      [] c = "t" -> 116
      [] c = "w" -> 119
      [] c = "y" -> 121

\* Ord for str: lexicographic on the bytes.
RECURSIVE StrCmp(_, _)
StrCmp(s, t) ==
    IF s = <<>> /\ t = <<>> THEN "Equal"
    ELSE IF s = <<>> THEN "Less"
    ELSE IF t = <<>> THEN "Greater"
    ELSE IF Byte(Head(s)) < Byte(Head(t)) THEN "Less"
    ELSE IF Byte(Head(s)) > Byte(Head(t)) THEN "Greater"
    ELSE StrCmp(Tail(s), Tail(t))

\* Hash for str: what it writes to the hasher, the bytes and then 0xff.
StrHash(s) == [i \in 1..Len(s) |-> Byte(s[i])] \o <<255>>

\* Itertools::join / format(sep) over a sequence of strings.
RECURSIVE Join(_, _)
Join(strs, sep) ==
    IF strs = <<>> THEN <<>>
    ELSE IF Len(strs) = 1 THEN strs[1]
    ELSE strs[1] \o sep \o Join(Tail(strs), sep)

\* The index of the first c in s, 0 when there is none.
RECURSIVE FindChar(_, _, _)
FindChar(s, c, i) ==
    IF i > Len(s) THEN 0
    ELSE IF s[i] = c THEN i
    ELSE FindChar(s, c, i + 1)

\* A split that yields nothing for an empty remainder (as split_terminator
\* does), so that the empty string has no first item.
SplitSkipEmpty(s, c) ==
    LET RECURSIVE go(_)
        go(rest) ==
            LET i == FindChar(rest, c, 1) IN
            IF rest = <<>> THEN <<>>
            ELSE IF i = 0 THEN <<rest>>
            ELSE <<SubSeq(rest, 1, i - 1)>> \o go(SubSeq(rest, i + 1, Len(rest)))
    IN go(s)

\* str::split(c), collected: one item more than there are separators, so the
\* empty string yields one empty item.
RECURSIVE Split(_, _)
Split(s, c) ==
    LET i == FindChar(s, c, 1) IN
    IF i = 0 THEN <<s>>
    ELSE <<SubSeq(s, 1, i - 1)>> \o Split(SubSeq(s, i + 1, Len(s)), c)

\* ------------------------------------------------------------------ Pos, Span

Min(x, y) == IF x <= y THEN x ELSE y
Max(x, y) == IF x >= y THEN x ELSE y

\* Span::new: no ordering of low and high is enforced.
SpanNew(low, high) == [low |-> low, high |-> high]

\* Span::ZERO, also Span::default().
SpanZERO == SpanNew(0, 0)

\* A merge that keeps its own high.
MergeKeepHigh(self, other) == SpanNew(Min(self.low, other.low), self.high)

\* A merge with min and max exchanged: the intersection, not the envelope.
MergeInner(self, other) ==
    SpanNew(Max(self.low, other.low), Min(self.high, other.high))

\* Span::merge
Merge(self, other) ==
    SpanNew(Min(self.low, other.low), Max(self.high, other.high))

Positions == 0..MaxPos
Spans == {SpanNew(l, h) : l \in Positions, h \in Positions}

\* ------------------------------------------------------------------ Ident

IdentStatic(s) == [rep |-> "Static", text |-> s]
IdentOwned(s) == [rep |-> "Owned", text |-> s]

\* Ident::new
IdentNew(s) == IdentOwned(s)

\* AsRef<str> for Ident
AsRef(i) == i.text

\* PartialEq for Ident
IdentEq(a, b) == AsRef(a) = AsRef(b)

\* Hash for Ident
IdentHash(i) == StrHash(AsRef(i))

\* Display for Ident
IdentDisplay(i) == i.text

\* The position of a variant in the enum's declaration.
Discriminant(i) == IF i.rep = "Static" THEN 0 ELSE 1

\* Ord for Ident, derived: the variants in declaration order, then the payloads.
IdentCmp(a, b) ==
    IF Discriminant(a) < Discriminant(b) THEN "Less"
    ELSE IF Discriminant(a) > Discriminant(b) THEN "Greater"
    ELSE StrCmp(a.text, b.text)

NameChars == {"a", "b"}
Idents == {[rep |-> r, text |-> s] : r \in {"Static", "Owned"},
                                     s \in BoundedSeqs(NameChars, MaxNameLen)}

\* ------------------------------------------------------------------ BinOp

BinOps == {"AssignAdd", "AssignSubtract", "AssignMultiply", "AssignDivide",
           "AssignOr", "AssignAnd", "LogicOr", "LogicAnd", "Or", "Xor", "And",
           "Equal", "NotEqual", "Less", "LessEqual", "Greater", "GreaterEqual",
           "Add", "Subtract", "Multiply", "Divide", "Modulo"}

\* BinOp::precedence
Precedence(op) ==
    CASE op \in {"AssignAdd", "AssignSubtract", "AssignMultiply", "AssignDivide",
                 "AssignOr", "AssignAnd"} -> 10
      [] op = "LogicOr" -> 9
      [] op = "LogicAnd" -> 8
      [] op = "Or" -> 7
      [] op = "Xor" -> 6
      [] op = "And" -> 5
      [] op \in {"Equal", "NotEqual"} -> 4
      [] op \in {"Less", "LessEqual", "Greater", "GreaterEqual"} -> 3
      [] op \in {"Add", "Subtract"} -> 2
      [] op \in {"Multiply", "Divide", "Modulo"} -> 1

\* An associative() that leaves Multiply out.
AssociativeNoMultiply(op) ==
    op \in {"LogicOr", "LogicAnd", "Or", "Xor", "And", "Add", "Subtract"}

\* BinOp::associative
Associative(op) ==
    CASE op \in {"AssignAdd", "AssignSubtract", "AssignMultiply", "AssignDivide",
                 "AssignOr", "AssignAnd"} -> FALSE
      [] op \in {"LogicOr", "LogicAnd", "Or", "Xor", "And"} -> TRUE
      [] op \in {"Equal", "NotEqual", "Less", "LessEqual", "Greater",
                 "GreaterEqual"} -> FALSE
      [] op \in {"Add", "Subtract", "Multiply"} -> TRUE
      [] op \in {"Divide", "Modulo"} -> FALSE

\* BinOp::does_associate
DoesAssociate(self, parent) ==
    \/ Precedence(parent) > Precedence(self)
    \/ (Precedence(parent) = Precedence(self) /\ Associative(parent))

\* ------------------------------------------------------------------ results

\* A call that returned v, and a call that panicked.
Ok(v) == [ok |-> TRUE, val |-> v]
Panic == [ok |-> FALSE]

\* Option: Some(v) and None.
Some(v) == [some |-> TRUE, val |-> v]
None == [some |-> FALSE]

\* ------------------------------------------------------------------ TypeName

\* TypeName::new
TypeNew(name, arguments) == [name |-> name, arguments |-> arguments]

\* TypeName::basic
TypeBasic(name) == TypeNew(IdentStatic(name), <<>>)

\* TypeName::basic_owned
TypeBasicOwned(name) == TypeNew(IdentOwned(name), <<>>)

\* TypeName::INT32
INT32 == TypeBasic(<<"I", "n", "t", "3", "2">>)

\* PartialEq for TypeName, derived: the names by Ident's eq, the arguments
\* by Vec's (the same length and equal element by element).
RECURSIVE TypeEq(_, _)
TypeEq(a, b) ==
    /\ IdentEq(a.name, b.name)
    /\ Len(a.arguments) = Len(b.arguments)
    /\ \A i \in 1..Len(a.arguments) : TypeEq(a.arguments[i], b.arguments[i])

RefName == <<"r", "e", "f">>
WRefName == <<"w", "r", "e", "f">>
ScriptRefName == <<"s", "c", "r", "i", "p", "t", "_", "r", "e", "f">>
ArrayName == <<"a", "r", "r", "a", "y">>

\* TypeName::kind
Kind(t) ==
    CASE AsRef(t.name) = RefName -> "Ref"
      [] AsRef(t.name) = WRefName -> "WRef"
      [] AsRef(t.name) = ScriptRefName -> "ScriptRef"
      [] AsRef(t.name) = ArrayName -> "Array"
      [] OTHER -> "Prim"

\* An unwrapped() that sees through ref and not through wref.
RECURSIVE UnwrappedRefOnly(_)
UnwrappedRefOnly(t) ==
    IF Kind(t) = "Ref"
    THEN IF t.arguments = <<>> THEN Panic ELSE UnwrappedRefOnly(t.arguments[1])
    ELSE Ok(t)

\* TypeName::unwrapped: arguments[0] panics when there is no argument.
RECURSIVE Unwrapped(_)
Unwrapped(t) ==
    IF Kind(t) \in {"Ref", "WRef"}
    THEN IF t.arguments = <<>> THEN Panic ELSE Unwrapped(t.arguments[1])
    ELSE Ok(t)

\* TypeName::mangled
RECURSIVE Mangled(_)
Mangled(t) ==
    LET u == Unwrapped(t) IN
    IF ~u.ok THEN Panic
    ELSE LET unwrapped == u.val
             args == [i \in 1..Len(unwrapped.arguments) |->
                         Mangled(unwrapped.arguments[i])]
         IN IF unwrapped.arguments = <<>> THEN Ok(unwrapped.name)
            ELSE IF \E i \in 1..Len(args) : ~args[i].ok THEN Panic
            ELSE Ok(IdentNew(IdentDisplay(unwrapped.name) \o <<"<">>
                     \o Join([i \in 1..Len(args) |-> IdentDisplay(args[i].val)], <<",">>)
                     \o <<">">>))

\* TypeName::pretty
RECURSIVE Pretty(_)
Pretty(t) ==
    IF t.arguments = <<>> THEN t.name
    ELSE IdentNew(IdentDisplay(t.name) \o <<"<">>
             \o Join([i \in 1..Len(t.arguments) |-> IdentDisplay(Pretty(t.arguments[i]))],
                     <<",", " ">>)
             \o <<">">>)

\* TypeName::repr
RECURSIVE Repr(_)
Repr(t) ==
    IF t.arguments = <<>> THEN t.name
    ELSE IdentNew(Join(<<IdentDisplay(t.name)>>
                       \o [i \in 1..Len(t.arguments) |-> IdentDisplay(Repr(t.arguments[i]))],
                       <<":">>))

\* A from_parts that drops the parts after the first.
FromPartsFlat(name, parts) == Some(TypeBasicOwned(name))

\* TypeName::from_parts
RECURSIVE FromParts(_, _)
FromParts(name, parts) ==
    IF parts # <<>>
    THEN LET arg == FromParts(Head(parts), Tail(parts)) IN
         IF ~arg.some THEN None
         ELSE Some(TypeNew(IdentOwned(name), <<arg.val>>))
    ELSE Some(TypeBasicOwned(name))

\* TypeName::from_repr: both unwrap() calls panic on None.
FromRepr(s) ==
    LET parts == Split(s, ":") IN
    IF parts = <<>> THEN Panic
    ELSE LET r == FromParts(Head(parts), Tail(parts)) IN
         IF r.some THEN Ok(r.val) ELSE Panic

\* The TypeNames of exactly n nodes over the identifiers in names, and the
\* argument lists of m nodes in all.
RECURSIVE TypesOfSize(_, _), TypeLists(_, _)
TypesOfSize(names, n) ==
    {TypeNew(i, args) : i \in names, args \in TypeLists(names, n - 1)}

TypeLists(names, m) ==
    IF m = 0 THEN {<<>>}
    ELSE UNION {{<<t>> \o rest : t \in TypesOfSize(names, k),
                                 rest \in TypeLists(names, m - k)} : k \in 1..m}

\* The texts of the type names drawn: the four reserved names, a nominal
\* type, the empty name, and a name that holds the separator of repr.
TypeTexts ==
    {RefName, WRefName, ScriptRefName, ArrayName, <<"I">>, <<>>, <<"I", ":", "I">>}

\* The TypeNames drawn: built all of static names, or all of owned ones.
Types ==
    UNION {TypesOfSize({IdentStatic(s) : s \in TypeTexts}, n)
           \cup TypesOfSize({IdentOwned(s) : s \in TypeTexts}, n) : n \in 1..MaxTypeNodes}

\* The strings handed to from_repr directly.
ReprStrings == BoundedSeqs({"I", ":"}, MaxStrLen)

\* ------------------------------------------------------------------ Target, Expr

\* Target::new
TargetNew(position) == [position |-> position, resolved |-> FALSE]

\* The variants of Expr other than Seq, in declaration order.
NonSeqVariants ==
    {"Ident", "Constant", "ArrayLit", "InterpolatedString", "Declare", "Cast",
     "Assign", "Call", "MethodCall", "Member", "ArrayElem", "New", "Return",
     "Switch", "Goto", "If", "Conditional", "While", "ForIn", "BinOp", "UnOp",
     "This", "Super", "Break", "Null"}

\* The variants that hold no sub-expression.
NullaryVariants == {"Ident", "Constant", "Goto", "This", "Super", "Break", "Null"}

\* An Expr: its variant, the Span stored in it (Seq stores none), the Target
\* of a Goto, and its sub-expressions (of a Seq: seq.exprs).
ExprNode(variant, span, target, exprs) ==
    [variant |-> variant, span |-> span, target |-> target, exprs |-> exprs]

ExprSeq(exprs) == ExprNode("Seq", SpanZERO, TargetNew(0), exprs)
ExprGoto(target, span) == ExprNode("Goto", span, target, <<>>)
ExprBreak(span) == ExprNode("Break", span, TargetNew(0), <<>>)

\* Expr::EMPTY
ExprEMPTY == ExprSeq(<<>>)

\* An is_empty with any in the place of all.
RECURSIVE IsEmptyAny(_)
IsEmptyAny(e) ==
    CASE e.variant = "Seq" -> \E i \in 1..Len(e.exprs) : IsEmptyAny(e.exprs[i])
      [] e.variant = "Goto" -> e.target.resolved
      [] OTHER -> FALSE

\* Expr::is_empty
RECURSIVE IsEmpty(_)
IsEmpty(e) ==
    CASE e.variant = "Seq" -> \A i \in 1..Len(e.exprs) : IsEmpty(e.exprs[i])
      [] e.variant = "Goto" -> e.target.resolved
      [] OTHER -> FALSE

\* A span() that returns the span of the first element of a Seq.
RECURSIVE ExprSpanFirstOnly(_)
ExprSpanFirstOnly(e) ==
    IF e.variant = "Seq"
    THEN IF e.exprs = <<>> THEN SpanZERO ELSE ExprSpanFirstOnly(e.exprs[1])
    ELSE e.span

\* Expr::span
RECURSIVE ExprSpan(_)
ExprSpan(e) ==
    IF e.variant = "Seq"
    THEN LET start == IF e.exprs = <<>> THEN SpanZERO ELSE ExprSpan(e.exprs[1])
             end == IF e.exprs = <<>> THEN SpanZERO
                    ELSE ExprSpan(e.exprs[Len(e.exprs)])
         IN Merge(start, end)
    ELSE e.span

\* What a structuring pass can make of e by resolving one Target of it.
RECURSIVE Resolutions(_)
Resolutions(e) ==
    CASE e.variant = "Goto" ->
            IF e.target.resolved THEN {} ELSE {[e EXCEPT !.target.resolved = TRUE]}
      [] e.variant = "Seq" ->
            UNION {{[e EXCEPT !.exprs[i] = f] : f \in Resolutions(e.exprs[i])} :
                   i \in 1..Len(e.exprs)}
      [] OTHER -> {}

\* The expressions drawn as elements of a sequence.
LeafSpans == {SpanNew(0, 1), SpanNew(1, 2)}
SeqLeaves == {ExprBreak(s) : s \in LeafSpans} \cup {ExprGoto(TargetNew(0), s) : s \in LeafSpans}

\* The expressions of exactly n nodes made of Seq and SeqLeaves, and the
\* element lists of m nodes in all.
RECURSIVE ExprsOfSize(_), ExprLists(_)
ExprsOfSize(n) ==
    {ExprSeq(es) : es \in ExprLists(n - 1)} \cup (IF n = 1 THEN SeqLeaves ELSE {})

ExprLists(m) ==
    IF m = 0 THEN {<<>>}
    ELSE UNION {{<<e>> \o rest : e \in ExprsOfSize(k), rest \in ExprLists(m - k)} :
                k \in 1..m}

\* The sequences drawn.
SeqExprs == UNION {{ExprSeq(es) : es \in ExprLists(n - 1)} : n \in 1..MaxExprNodes}

\* The other expressions drawn: every variant, with every span; one that
\* holds sub-expressions with none or with an empty body.
TopExprs ==
    {ExprNode(v, s, TargetNew(0), es) :
        v \in NonSeqVariants, s \in Spans, es \in {<<>>, <<ExprEMPTY>>}}
    \ {ExprNode(v, s, TargetNew(0), <<ExprEMPTY>>) : v \in NullaryVariants, s \in Spans}

\* ------------------------------------------------------------------ Span: specification

IdleSpan == spanA = SpanZERO /\ spanB = SpanZERO /\ spanC = SpanZERO
IdleIdent == identA = IdentStatic(<<>>) /\ identB = IdentStatic(<<>>)
IdleBinOp == opSelf = "Add" /\ opParent = "Add"
IdleType == ty = INT32 /\ str = <<>>
IdleExpr == expr = ExprEMPTY

InitSpan ==
    /\ spanA \in Spans /\ spanB \in Spans /\ spanC \in Spans
    /\ IdleIdent /\ IdleBinOp /\ IdleType /\ IdleExpr
    /\ call = NoCall

\* spanA.merge(spanB)
CallMerge ==
    /\ call' = [op |-> "merge", self |-> spanA, other |-> spanB,
                result |-> Merge(spanA, spanB)]
    /\ UNCHANGED <<spanA, spanB, spanC, identA, identB, opSelf, opParent, ty, str, expr>>

\* spanA.merge(spanB).merge(spanC) and spanA.merge(spanB.merge(spanC))
CallMergeChain ==
    /\ call' = [op |-> "merge_chain",
                left |-> Merge(Merge(spanA, spanB), spanC),
                right |-> Merge(spanA, Merge(spanB, spanC))]
    /\ UNCHANGED <<spanA, spanB, spanC, identA, identB, opSelf, opParent, ty, str, expr>>

NextSpan == CallMerge \/ CallMergeChain

SpecSpan == InitSpan /\ [][NextSpan]_vars

\* ------------------------------------------------------------------ Ident: specification

InitIdent ==
    /\ identA \in Idents /\ identB \in Idents
    /\ IdleSpan /\ IdleBinOp /\ IdleType /\ IdleExpr
    /\ call = NoCall

\* identA == identB
CallIdentEq ==
    /\ call' = [op |-> "eq", result |-> IdentEq(identA, identB)]
    /\ UNCHANGED <<spanA, spanB, spanC, identA, identB, opSelf, opParent, ty, str, expr>>

\* identA.cmp(&identB)
CallIdentCmp ==
    /\ call' = [op |-> "cmp", result |-> IdentCmp(identA, identB)]
    /\ UNCHANGED <<spanA, spanB, spanC, identA, identB, opSelf, opParent, ty, str, expr>>

\* identA.hash(h) and identB.hash(h), into hashers in the same state
CallIdentHash ==
    /\ call' = [op |-> "hash", left |-> IdentHash(identA), right |-> IdentHash(identB)]
    /\ UNCHANGED <<spanA, spanB, spanC, identA, identB, opSelf, opParent, ty, str, expr>>

\* identA.to_string() and identB.to_string()
CallIdentDisplay ==
    /\ call' = [op |-> "display", left |-> IdentDisplay(identA),
                right |-> IdentDisplay(identB)]
    /\ UNCHANGED <<spanA, spanB, spanC, identA, identB, opSelf, opParent, ty, str, expr>>

NextIdent == CallIdentEq \/ CallIdentCmp \/ CallIdentHash \/ CallIdentDisplay

SpecIdent == InitIdent /\ [][NextIdent]_vars

\* ------------------------------------------------------------------ BinOp: specification

InitBinOp ==
    /\ opSelf \in BinOps /\ opParent \in BinOps
    /\ IdleSpan /\ IdleIdent /\ IdleType /\ IdleExpr
    /\ call = NoCall

\* opSelf.precedence()
CallPrecedence ==
    /\ call' = [op |-> "precedence", result |-> Precedence(opSelf)]
    /\ UNCHANGED <<spanA, spanB, spanC, identA, identB, opSelf, opParent, ty, str, expr>>

\* opSelf.associative()
CallAssociative ==
    /\ call' = [op |-> "associative", result |-> Associative(opSelf)]
    /\ UNCHANGED <<spanA, spanB, spanC, identA, identB, opSelf, opParent, ty, str, expr>>

\* opSelf.does_associate(opParent)
CallDoesAssociate ==
    /\ call' = [op |-> "does_associate", result |-> DoesAssociate(opSelf, opParent)]
    /\ UNCHANGED <<spanA, spanB, spanC, identA, identB, opSelf, opParent, ty, str, expr>>

NextBinOp == CallPrecedence \/ CallAssociative \/ CallDoesAssociate

SpecBinOp == InitBinOp /\ [][NextBinOp]_vars

\* ------------------------------------------------------------------ TypeName: specification

\* Either a TypeName and an empty string, or a string alone.
InitType ==
    /\ \/ ty \in Types /\ str = <<>>
       \/ ty = INT32 /\ str \in ReprStrings
    /\ IdleSpan /\ IdleIdent /\ IdleBinOp /\ IdleExpr
    /\ call = NoCall

\* str = ty.repr().to_string(): the encoding is written to the constant pool
CallRepr ==
    /\ str' = IdentDisplay(Repr(ty))
    /\ call' = [op |-> "repr", result |-> Repr(ty)]
    /\ UNCHANGED <<spanA, spanB, spanC, identA, identB, opSelf, opParent, ty, expr>>

\* TypeName::from_repr(&str)
CallFromRepr ==
    /\ call' = [op |-> "from_repr", result |-> FromRepr(str)]
    /\ UNCHANGED <<spanA, spanB, spanC, identA, identB, opSelf, opParent, ty, str, expr>>

\* ty.mangled()
CallMangled ==
    /\ call' = [op |-> "mangled", result |-> Mangled(ty)]
    /\ UNCHANGED <<spanA, spanB, spanC, identA, identB, opSelf, opParent, ty, str, expr>>

NextType == CallRepr \/ CallFromRepr \/ CallMangled

SpecType == InitType /\ [][NextType]_vars

\* ------------------------------------------------------------------ Expr: specification

InitExpr ==
    /\ expr \in SeqExprs \cup TopExprs
    /\ IdleSpan /\ IdleIdent /\ IdleBinOp /\ IdleType
    /\ call = NoCall

\* expr.is_empty()
CallIsEmpty ==
    /\ call' = [op |-> "is_empty", result |-> IsEmpty(expr)]
    /\ UNCHANGED <<spanA, spanB, spanC, identA, identB, opSelf, opParent, ty, str, expr>>

\* expr.span()
CallSpan ==
    /\ call' = [op |-> "span", result |-> ExprSpan(expr)]
    /\ UNCHANGED <<spanA, spanB, spanC, identA, identB, opSelf, opParent, ty, str, expr>>

\* A structuring pass sets target.resolved of one Goto of expr.
ResolveTarget ==
    /\ \E e \in Resolutions(expr) : expr' = e
    /\ call' = [op |-> "resolve"]
    /\ UNCHANGED <<spanA, spanB, spanC, identA, identB, opSelf, opParent, ty, str>>

NextExpr == CallIsEmpty \/ CallSpan \/ ResolveTarget

SpecExpr == InitExpr /\ [][NextExpr]_vars

\* ------------------------------------------------------------------ properties: TypeName

\* No name of t holds the separator ':'.
RECURSIVE NoColon(_)
NoColon(t) ==
    /\ FindChar(AsRef(t.name), ":", 1) = 0
    /\ \A i \in 1..Len(t.arguments) : NoColon(t.arguments[i])

\* Every level of t has 0 or 1 type argument.
RECURSIVE IsChain(_)
IsChain(t) ==
    /\ Len(t.arguments) <= 1
    /\ \A i \in 1..Len(t.arguments) : IsChain(t.arguments[i])

\* The number of nodes of t.
RECURSIVE TypeNodes(_)
TypeNodes(t) ==
    LET RECURSIVE sum(_)
        sum(ts) == IF ts = <<>> THEN 0 ELSE TypeNodes(Head(ts)) + sum(Tail(ts))
    IN 1 + sum(t.arguments)

\* from_repr has just decoded the encoding of ty.
RoundTripped == call.op = "from_repr" /\ str = IdentDisplay(Repr(ty))

\* C1: for a TypeName whose names hold no ':', from_repr(repr(t)) == t when
\* every level of t has 0 or 1 argument, and from_repr(repr(t)) != t when some
\* level has 2 or more: what is decoded then is a single-argument chain with
\* as many nodes as t.
C1_ReprRoundTrip ==
    (RoundTripped /\ NoColon(ty)) =>
        /\ call.result.ok
        /\ IsChain(ty) => TypeEq(call.result.val, ty)
        /\ ~IsChain(ty) =>
              /\ ~TypeEq(call.result.val, ty)
              /\ IsChain(call.result.val)
              /\ TypeNodes(call.result.val) = TypeNodes(ty)

\* C1, the first case: a chain of three levels built of static names was
\* encoded and decoded to an equal TypeName of owned names.
C1_Witness ==
    /\ RoundTripped /\ NoColon(ty)
    /\ IsChain(ty) /\ TypeNodes(ty) = 3 /\ ty.name.rep = "Static"
    /\ call.result.ok /\ TypeEq(call.result.val, ty) /\ call.result.val # ty

\* C1, the second case alone.
C1_WitnessTwoArguments ==
    /\ RoundTripped /\ NoColon(ty) /\ Len(ty.arguments) = 2
    /\ ~TypeEq(call.result.val, ty)

\* C2 as stated: from_repr fails when it is given the empty string.
C2_Original ==
    (call.op = "from_repr" /\ str = <<>>) => ~call.result.ok

\* C2, amended: given the empty string, from_repr does not fail; it returns
\* the TypeName of the empty owned name with no arguments.
C2_FromReprEmpty ==
    (call.op = "from_repr" /\ str = <<>>) =>
        /\ call.result.ok
        /\ call.result.val = TypeBasicOwned(<<>>)

C2_Witness == call.op = "from_repr" /\ str = <<>> /\ call.result.ok

\* t with every ref and wref layer replaced by its argument, at the top and
\* inside the type arguments (of a t whose ref/wref nodes have one argument).
RECURSIVE Erase(_)
Erase(t) ==
    IF Kind(t) \in {"Ref", "WRef"} THEN Erase(t.arguments[1])
    ELSE TypeNew(t.name, [i \in 1..Len(t.arguments) |-> Erase(t.arguments[i])])

\* Every ref/wref node of t has exactly one argument.
RECURSIVE RefsWellFormed(_)
RefsWellFormed(t) ==
    /\ Kind(t) \in {"Ref", "WRef"} => Len(t.arguments) = 1
    /\ \A i \in 1..Len(t.arguments) : RefsWellFormed(t.arguments[i])

\* C6: mangled() erases ref/wref at every depth.  Two types have the same
\* erasure exactly when each has the erasure of the other, so the claim is
\* that t mangles as its erasure does, and as t wrapped in one more ref or
\* wref does; a script_ref or array layer stays in the key.
C6_MangledErasesRefs ==
    (call.op = "mangled" /\ RefsWellFormed(ty)) =>
        /\ call.result.ok
        /\ Mangled(Erase(ty)).ok
        /\ IdentEq(call.result.val, Mangled(Erase(ty)).val)
        /\ \A k \in {RefName, WRefName} :
              /\ Mangled(TypeNew(IdentStatic(k), <<ty>>)).ok
              /\ IdentEq(Mangled(TypeNew(IdentStatic(k), <<ty>>)).val, call.result.val)
        /\ (Kind(ty) \in {"ScriptRef", "Array"} /\ Len(ty.arguments) = 1) =>
              /\ ~IdentEq(call.result.val, Mangled(ty.arguments[1]).val)
              /\ AsRef(call.result.val) =
                    AsRef(ty.name) \o <<"<">> \o AsRef(Mangled(ty.arguments[1]).val) \o <<">">>

\* C6: a wref at the top over an argument that is itself a ref was mangled.
C6_Witness ==
    /\ call.op = "mangled" /\ RefsWellFormed(ty)
    /\ TypeNodes(ty) = 3
    /\ Kind(ty) = "WRef" /\ Kind(ty.arguments[1]) = "Ref"
    /\ Erase(ty) # ty
    /\ call.result.ok

\* ------------------------------------------------------------------ properties: Ident

\* C3 as stated: eq, hash, the rendered text and cmp are all determined by
\* the two texts alone, and cmp is the comparison of the texts.
C3_Original ==
    /\ call.op = "eq" => (call.result <=> AsRef(identA) = AsRef(identB))
    /\ call.op = "hash" =>
          (AsRef(identA) = AsRef(identB) => call.left = call.right)
    /\ call.op = "display" =>
          (call.left = AsRef(identA) /\ call.right = AsRef(identB))
    /\ call.op = "cmp" => call.result = StrCmp(AsRef(identA), AsRef(identB))

\* ------------------------------------------------------------------ properties: BinOp

\* C4 as stated: a child under a strictly looser parent associates, so
\* Multiply.does_associate(Add); and Subtract.does_associate(Subtract) is false.
C4_Original ==
    call.op = "does_associate" =>
        /\ Precedence(opParent) > Precedence(opSelf) => call.result
        /\ (opSelf = "Multiply" /\ opParent = "Add") => call.result
        /\ (opSelf = "Subtract" /\ opParent = "Subtract") => ~call.result

\* C5 as stated: associative() is true exactly for LogicOr, LogicAnd, Or, Xor,
\* And, Add and Subtract.
C5_Original ==
    call.op = "associative" =>
        (call.result <=>
            opSelf \in {"LogicOr", "LogicAnd", "Or", "Xor", "And", "Add", "Subtract"})

\* C5, amended: associative() is true exactly for LogicOr, LogicAnd, Or, Xor,
\* And, Add, Subtract and Multiply.
C5_AssociativeList ==
    call.op = "associative" =>
        (call.result <=>
            opSelf \in {"LogicOr", "LogicAnd", "Or", "Xor", "And", "Add", "Subtract",
                        "Multiply"})

C5_Witness == call.op = "associative" /\ opSelf = "Multiply" /\ call.result

\* ------------------------------------------------------------------ properties: Span

\* C9: merge is commutative, associative and idempotent on equal operands,
\* and its result is (min of the lows, max of the highs).
C9_MergeAlgebra ==
    /\ call.op = "merge" =>
          /\ call.result.low \in {spanA.low, spanB.low}
          /\ call.result.low <= spanA.low /\ call.result.low <= spanB.low
          /\ call.result.high \in {spanA.high, spanB.high}
          /\ call.result.high >= spanA.high /\ call.result.high >= spanB.high
          /\ Merge(spanB, spanA) = call.result
          /\ spanA = spanB => call.result = spanA
    /\ call.op = "merge_chain" => call.left = call.right

\* C9: three different spans, one of them with low > high, were merged.
C9_Witness ==
    /\ call.op = "merge_chain"
    /\ Cardinality({spanA, spanB, spanC}) = 3
    /\ spanB.low > spanB.high
    /\ call.left # spanA /\ call.left # spanB /\ call.left # spanC

\* C10 as stated: the result of merge has low <= high whatever the operands.
C10_Original ==
    call.op = "merge" => call.result.low <= call.result.high

\* C10, amended: the result of merge has low <= high when at least one of
\* the two operands has.
C10_MergeEnvelope ==
    (call.op = "merge" /\ (spanA.low <= spanA.high \/ spanB.low <= spanB.high)) =>
        call.result.low <= call.result.high

\* C10: a span with low > high was merged with one that has low <= high.
C10_Witness ==
    /\ call.op = "merge"
    /\ spanA.low > spanA.high /\ spanB.low <= spanB.high
    /\ call.result.low <= call.result.high

\* ------------------------------------------------------------------ properties: Expr

\* The expressions of e that are not sequences, reached through sequences only.
RECURSIVE Statements(_)
Statements(e) ==
    IF e.variant = "Seq"
    THEN UNION {Statements(e.exprs[i]) : i \in 1..Len(e.exprs)}
    ELSE {e}

\* C7: is_empty is true of a Seq whose elements are all (recursively) empty
\* and of a Goto on a resolved Target, and of nothing else: e is empty iff
\* it is a Seq or a Goto and all that its sequences hold are resolved Gotos.
C7_IsEmpty ==
    call.op = "is_empty" =>
        /\ call.result <=>
              /\ expr.variant \in {"Seq", "Goto"}
              /\ \A x \in Statements(expr) : x.variant = "Goto" /\ x.target.resolved
        /\ expr.variant = "Seq" =>
              (call.result <=> \A i \in 1..Len(expr.exprs) : IsEmpty(expr.exprs[i]))
        /\ expr = ExprEMPTY => call.result
        /\ (expr.variant = "Seq" /\ \E i \in 1..Len(expr.exprs) :
                expr.exprs[i].variant = "Break") => ~call.result

\* C7: a sequence that holds a resolved Goto and a nested sequence is empty.
C7_Witness ==
    /\ call.op = "is_empty" /\ call.result
    /\ expr.variant = "Seq" /\ Len(expr.exprs) = 2
    /\ expr.exprs[1].variant = "Goto" /\ expr.exprs[2].variant = "Seq"
    /\ expr.exprs[2] # ExprEMPTY

\* C8: the span of an empty Seq is Span::ZERO, the span of another Seq is
\* the merge of the spans of its first and last elements, and every other
\* variant returns the Span stored in it.
C8_SeqSpan ==
    call.op = "span" =>
        /\ expr = ExprEMPTY => call.result = SpanZERO
        /\ (expr.variant = "Seq" /\ expr.exprs # <<>>) =>
              call.result = Merge(ExprSpan(Head(expr.exprs)),
                                  ExprSpan(expr.exprs[Len(expr.exprs)]))
        /\ (expr.variant = "Seq" /\ \A i \in 1..Len(expr.exprs) :
                expr.exprs[i].variant # "Seq") =>
              call.result =
                 IF expr.exprs = <<>> THEN SpanZERO
                 ELSE [low |-> Min(expr.exprs[1].span.low,
                                   expr.exprs[Len(expr.exprs)].span.low),
                       high |-> Max(expr.exprs[1].span.high,
                                    expr.exprs[Len(expr.exprs)].span.high)]
        /\ expr.variant # "Seq" => call.result = expr.span

\* C8: the span of a sequence of three whose first and last spans differ.
C8_Witness ==
    /\ call.op = "span"
    /\ expr.variant = "Seq" /\ Len(expr.exprs) = 3
    /\ \A i \in 1..3 : expr.exprs[i].variant # "Seq"
    /\ expr.exprs[1].span # expr.exprs[3].span
    /\ call.result # expr.exprs[1].span /\ call.result # expr.exprs[3].span

=============================================================================
